---- MODULE Spec2Model ----
(***************************************************************************)
(* Local authentication of the expense manager: the AuthProvider of        *)
(* contexts/AuthContext (sign-up, sign-in, sign-out, password reset,       *)
(* profile update, session persistence and expiry) over AsyncStorage, and   *)
(* the ExpenseProvider and IncomeProvider that scope their records by the  *)
(* current user.                                                           *)
(*                                                                         *)
(* Conventions of the model                                                *)
(*  - Date.now() is the variable now (milliseconds); a handler runs at one *)
(*    instant, the clock moves between handlers (Tick).                    *)
(*  - SHA256 + Base64 is modelled as an injective constructor: the digest  *)
(*    of a value is a tuple holding that value.  generateSalt() at time t  *)
(*    is <<"salt", t>>, hashPassword(p, s) is <<p, s>>.                    *)
(*  - Date.now().toString() is injective; a user id is kept as the number. *)
(*  - An e-mail address is the sequence of its characters, so that the     *)
(*    validation regex is evaluated and not assumed.                       *)
(*  - A storage write that throws is the input f of a handler: the write   *)
(*    named f rejects, the writes before it have taken effect.             *)
(*  - A handler is an operator from the state it runs in (a record of the  *)
(*    variables) and its arguments to the state it leaves, with what it    *)
(*    returned: outcome is "ok", "returned" (early return after setError)  *)
(*    or "thrown", uid the user id it worked on.  The action applies it.   *)
(*  - The effect of a provider on [user] runs with the handler that set the *)
(*    user: the lists are refreshed in the same step.                       *)
(*  - Only signUp is followed await by await (pending), for the interleaving*)
(*    of two calls; every other handler runs as one step.                   *)
(***************************************************************************)
EXTENDS Integers, Sequences, FiniteSets, TLC

VARIABLES
    now,               \* Date.now()
    ticks,             \* number of clock advances so far (bounds the model)
    registered_users,  \* AsyncStorage 'registered_users': sequence of StoredUser
    salts,             \* AsyncStorage '@auth_salt_<userId>': userId -> salt
    auth_store,        \* AsyncStorage '@auth_store': public projection or Null
    auth_session,      \* AsyncStorage '@auth_session': SessionData or Null
    reset_codes,       \* AsyncStorage 'reset_code_<email>': email -> {code, expiry}
    user,              \* useState user
    sessionExpiry,     \* useState sessionExpiry
    error,             \* useState error (its code) or Null
    isInitialized,     \* useState isInitialized
    timers,            \* pending setTimeout(handleSessionExpiration) deadlines
    records,           \* AsyncStorage '@expenses', '@incomes': whether stored, the array
    lists,             \* useState expenses / incomes of the two providers, by key
    numbers,           \* AsyncStorage 'currentSavings', 'savingsGoal', 'monthlyBudget'
    currentSavings,    \* useState currentSavings of SavingsProvider
    savingsGoal,       \* useState savingsGoal of SavingsProvider
    monthlyBudget,     \* useState monthlyBudget of BudgetProvider
    adding,            \* addToSavings calls in flight: the totals they are storing
    pending,           \* signUp calls in flight: call -> where it stands, its locals
    last               \* the handler that ran last; twice: a signOut that followed a
                       \* signOut; note: what that handler met (see the actions)

vars == <<now, ticks, registered_users, salts, auth_store, auth_session,
          reset_codes, user, sessionExpiry, error, isInitialized, timers,
          records, lists, numbers, currentSavings, savingsGoal, monthlyBudget,
          adding, pending, last>>

storage == <<registered_users, salts, auth_store, auth_session, reset_codes, records,
             numbers>>
memory  == <<user, sessionExpiry, error, isInitialized, timers, lists,
             currentSavings, savingsGoal, monthlyBudget, adding>>

\* null: of a record (user, stored JSON), of the error, of the expiry time
Null     == [null |-> TRUE]
NoError  == "null"
NoExpiry == -1

----------------------------------------------------------------------------
(* Bounds of the model *)
MaxUsers == 2
MaxTicks == 2
MaxRecords == 2   \* records stored, expenses and incomes together
MaxSavings == 3   \* the largest total an addToSavings call may store

(* Program constants *)
SESSION_DURATION == 7 * 24 * 60 * 60 * 1000
DAY_MS           == 24 * 60 * 60 * 1000
RESET_TTL        == 5 * 60 * 1000
MIN_PASSWORD     == 6
DEFAULT_GOAL     == 10000   \* useState(10000) of savingsGoal

(* Inputs *)
EmailA   == <<"a", "@", "b", ".", "c">>
EmailD   == <<"d", "@", "b", ".", "c">>
EmailBad == <<"a", "@", "b">>
Short    == "Ab1!x"
Pw1      == "Secret1!"
Pw2      == "Secret2!"
Codes    == {"111111", "222222"}
\* STORAGE_KEY of ExpenseProvider and of IncomeProvider
Keys     == {"@expenses", "@incomes"}
\* the amounts entered for a record
Amounts  == {10}
\* the keys of SavingsProvider and BudgetProvider
NumberKeys == {"currentSavings", "savingsGoal", "monthlyBudget"}
\* the amounts entered for savings, a goal, a budget
SavingsAmounts == {1, 2}
Goals    == {500}
Budgets  == {300}
\* two signUp calls in flight at once
Calls    == {1, 2}
\* signUp(email, password, name): two valid ones, an empty name, a short password
SignUps  == {<<EmailA, Pw1, "Ann">>, <<EmailD, Pw1, "Ann">>, <<EmailA, Pw1, "">>,
             <<EmailA, Short, "Ann">>}
\* signIn(email, password, .): right and wrong password, a malformed e-mail
SignIns  == {<<EmailA, Pw1>>, <<EmailA, Pw2>>, <<EmailD, Pw1>>, <<EmailBad, Pw1>>}
\* how far the clock is followed: past the longest session, past a reset code
SessionHorizon == SESSION_DURATION + DAY_MS
DataHorizon    == 2 * DAY_MS
ResetHorizon   == 2 * RESET_TTL

----------------------------------------------------------------------------
(* Pure helpers *)

IsSpace(c) == c \in {" ", "\t", "\n"}
Plain(e, lo, hi) ==
    /\ lo <= hi
    /\ \A k \in lo..hi : ~IsSpace(e[k]) /\ e[k] # "@"

\* the pattern left out: every e-mail passes
validateEmailAny(e) == TRUE

\* /^[^\s@]+@[^\s@]+\.[^\s@]+$/
validateEmail(e) ==
    \E i \in 1..Len(e) : \E j \in 1..Len(e) :
        /\ i < j
        /\ e[i] = "@"
        /\ e[j] = "."
        /\ Plain(e, 1, i - 1)
        /\ Plain(e, i + 1, j - 1)
        /\ Plain(e, j + 1, Len(e))

generateSalt(t) == <<"salt", t>>
hashPassword(password, salt) == <<password, salt>>

\* users.findIndex(u => u.email === email): first match, 0 when none
findIndexByEmail(users, email) ==
    IF \E i \in 1..Len(users) : users[i].email = email
    THEN CHOOSE i \in 1..Len(users) :
            /\ users[i].email = email
            /\ \A k \in 1..(i - 1) : users[k].email # email
    ELSE 0

findIndexById(users, id) ==
    IF \E i \in 1..Len(users) : users[i].id = id
    THEN CHOOSE i \in 1..Len(users) :
            /\ users[i].id = id
            /\ \A k \in 1..(i - 1) : users[k].id # id
    ELSE 0

\* the duplicate check left out
emailTakenNever(users, email) == FALSE

\* users.some(u => u.email === email)
emailTaken(users, email) == \E i \in 1..Len(users) : users[i].email = email

\* the hash taken with a salt generated anew, not with the one stored
newStoredUserOtherSalt(userId, email, name, password, salt) ==
    [id |-> userId, email |-> email, name |-> name,
     passwordHash |-> hashPassword(password, generateSalt(userId + 1))]

\* the whole StoredUser taken as the projection
projectionWhole(u) == u

\* { passwordHash: _, ...userWithoutHash } / userWithoutSensitiveData
projection(u) == [id |-> u.id, email |-> u.email, name |-> u.name]

\* the StoredUser signUp builds
newStoredUser(userId, email, name, password, salt) ==
    [id |-> userId, email |-> email, name |-> name,
     passwordHash |-> hashPassword(password, salt)]

\* the comparison of the hashes left out
passwordMatchesAny(password, salt, passwordHash) == TRUE

\* hashedPassword !== foundUser.passwordHash, negated
passwordMatches(password, salt, passwordHash) ==
    hashPassword(password, salt) = passwordHash

\* the code taken as expired at the instant of its expiry already
codeExpiredAtExpiry(t, resetData) == t >= resetData.expiry

\* Date.now() > resetData.expiry
codeExpired(t, resetData) == t > resetData.expiry

sessionData(userId, rememberMe, t) ==
    [token     |-> <<userId, t>>,
     expiresAt |-> t + (IF rememberMe THEN SESSION_DURATION ELSE DAY_MS),
     userId    |-> userId]

\* startSessionTimer: a timeout is armed only for a deadline in the future
armed(ts, expiryTime, t) ==
    IF expiryTime - t > 0 THEN ts \cup {expiryTime} ELSE ts

\* AsyncStorage keys of one family: setItem, removeItem, no key stored
NoKeys == [k \in {} |-> Null]
setItem(f, k, v) == [x \in DOMAIN f \cup {k} |-> IF x = k THEN v ELSE f[x]]
removeItem(f, k) == [x \in DOMAIN f \ {k} |-> f[x]]
\* neither '@expenses' nor '@incomes' stored: getItem returns null
NoRecords == [K \in Keys |-> [stored |-> FALSE, items |-> <<>>]]
\* none of the number keys stored
NoNumbers == [K \in NumberKeys |-> [stored |-> FALSE, value |-> 0]]

----------------------------------------------------------------------------
(* The state a handler runs in *)
Cur ==
    [now |-> now, registered_users |-> registered_users, salts |-> salts,
     auth_store |-> auth_store, auth_session |-> auth_session,
     reset_codes |-> reset_codes, user |-> user, sessionExpiry |-> sessionExpiry,
     error |-> error, isInitialized |-> isInitialized, timers |-> timers,
     records |-> records, lists |-> lists,
     numbers |-> numbers, currentSavings |-> currentSavings,
     savingsGoal |-> savingsGoal, monthlyBudget |-> monthlyBudget,
     adding |-> adding,
     outcome |-> "ok", uid |-> 0,
     route |-> "",      \* the route the handler passed to router.replace
     touched |-> {},    \* the storage keys signUp / signIn have read or written
     message |-> ""]    \* the message of the Error addExpense / addIncome threw

(* The records of user id among all those stored, with no filter at all *)
ownRecordsAll(all, id) == all

(* allExpenses.filter(expense => expense.userId === user?.id) *)
ownRecords(all, id) == SelectSeq(all, LAMBDA x : x.userId = id)

(* loadExpenses() / loadIncomes(): the list is set only when the key is stored *)
loadRecords(S, K) ==
    IF S.records[K].stored
    THEN ownRecords(S.records[K].items, S.user.id)
    ELSE S.lists[K]

(* useEffect(..., [user]) of ExpenseProvider and IncomeProvider *)
userEffect(S) ==
    [S EXCEPT !.lists = [K \in Keys |->
                            IF S.user # Null THEN loadRecords(S, K) ELSE <<>>]]

(* The state a handler (or one step of a call in flight) leaves becomes the
   next state, after the effects on [user] have run when it set the user *)
Commit(op, note, R, calls) ==
    LET E == IF R.user # user THEN userEffect(R) ELSE R
    IN
    /\ registered_users' = E.registered_users
    /\ salts' = E.salts
    /\ auth_store' = E.auth_store
    /\ auth_session' = E.auth_session
    /\ reset_codes' = E.reset_codes
    /\ user' = E.user
    /\ sessionExpiry' = E.sessionExpiry
    /\ error' = E.error
    /\ isInitialized' = E.isInitialized
    /\ timers' = E.timers
    /\ records' = E.records
    /\ lists' = E.lists
    /\ numbers' = E.numbers
    /\ currentSavings' = E.currentSavings
    /\ savingsGoal' = E.savingsGoal
    /\ monthlyBudget' = E.monthlyBudget
    /\ adding' = E.adding
    /\ last' = [op |-> op, twice |-> (op = "signOut" /\ last.op = "signOut"),
                note |-> note]
    /\ pending' = calls
    /\ UNCHANGED <<now, ticks>>

ApplyNoted(op, note, R) == Commit(op, note, R, pending)

Apply(op, R) == ApplyNoted(op, "", R)

\* a signUp call that has not been made: where it stands and its locals
Idle ==
    [pc |-> "idle", email |-> <<>>, password |-> "", name |-> "",
     users |-> <<>>, userId |-> 0, t |-> 0, outcome |-> ""]

Init ==
    /\ now = 0
    /\ ticks = 0
    /\ registered_users = <<>>
    /\ salts = NoKeys
    /\ auth_store = Null
    /\ auth_session = Null
    /\ reset_codes = NoKeys
    /\ user = Null
    /\ sessionExpiry = NoExpiry
    /\ error = NoError
    /\ isInitialized = FALSE
    /\ timers = {}
    /\ records = NoRecords
    /\ lists = [K \in Keys |-> <<>>]
    /\ numbers = NoNumbers
    /\ currentSavings = 0
    /\ savingsGoal = DEFAULT_GOAL
    /\ monthlyBudget = 0
    /\ adding = <<>>
    /\ pending = [c \in Calls |-> Idle]
    /\ last = [op |-> "init", twice |-> FALSE, note |-> ""]

(* The clock advances by one of the given steps, up to the horizon *)
Tick(steps, horizon) ==
    /\ ticks < MaxTicks
    /\ \E d \in steps : now + d <= horizon /\ now' = now + d
    /\ ticks' = ticks + 1
    /\ UNCHANGED <<storage, memory, pending, last>>

----------------------------------------------------------------------------
(* setError(...) then return or throw *)
failed(S, code, outcome, uid) ==
    [S EXCEPT !.error = code, !.outcome = outcome, !.uid = uid]

(* AsyncStorage.getItem / setItem on the keys: the handler has touched them *)
touch(S, keys) == [S EXCEPT !.touched = @ \cup keys]

(* createSession(userId, rememberMe): persist, setSessionExpiry, arm the timer *)
createSession(S, userId, rememberMe) ==
    LET session == sessionData(userId, rememberMe, S.now)
    IN [touch(S, {"@auth_session"})
           EXCEPT !.auth_session = session,
                  !.sessionExpiry = session.expiresAt,
                  !.timers = armed(S.timers, session.expiresAt, S.now)]

\* the salt of a new user stored nowhere
storeSaltNowhere(store, userId, salt) == store

\* AsyncStorage.setItem(`${SALT_KEY}_${userId}`, salt) of signUp
storeSalt(store, userId, salt) == setItem(store, userId, salt)

(* signUp(email, password, name); f names the storage write that rejects *)
signUpResult(S, email, password, name, f) ==
    LET users   == S.registered_users
        userId  == S.now
        salt    == generateSalt(S.now)
        newUser == newStoredUser(userId, email, name, password, salt)
        S0 == [S EXCEPT !.error = NoError]
        SR == touch(S0, {"registered_users"})
        S1 == [touch(SR, {"@auth_salt"})
                  EXCEPT !.salts = storeSalt(S.salts, userId, salt)]
        S2 == [S1 EXCEPT !.registered_users = Append(users, newUser),
                         !.user = projection(newUser)]
        S3 == createSession(S2, userId, TRUE)
    IN
    IF email = <<>> \/ password = "" \/ name = ""
    THEN failed(S0, "auth/missing-fields", "returned", 0)
    ELSE IF ~validateEmail(email)
    THEN failed(S0, "auth/invalid-email", "returned", 0)
    ELSE IF Len(password) < MIN_PASSWORD
    THEN failed(S0, "auth/weak-password", "returned", 0)
    ELSE IF emailTaken(users, email)
    THEN failed(SR, "auth/email-already-in-use", "thrown", 0)
    ELSE IF f = "salt"
    THEN failed(SR, "auth/registration-failed", "thrown", 0)
    ELSE IF f = "users"
    THEN failed(S1, "auth/registration-failed", "thrown", 0)
    ELSE IF f = "session"
    THEN failed(S2, "auth/registration-failed", "thrown", userId)
    ELSE [S3 EXCEPT !.outcome = "ok", !.uid = userId,
                    !.route = "/(tabs)/dashboard"]

\* signUp gets past validation and the duplicate check, and registers a user
registers(S, email, password, name) ==
    /\ email # <<>> /\ password # "" /\ name # ""
    /\ validateEmail(email)
    /\ Len(password) >= MIN_PASSWORD
    /\ ~emailTaken(S.registered_users, email)

signUp(email, password, name, f) ==
    /\ isInitialized
    /\ registers(Cur, email, password, name) => Len(registered_users) < MaxUsers
    /\ Apply("signUp", signUpResult(Cur, email, password, name, f))

(* The Register screen *)
Upper   == {"A", "B", "C", "D", "E", "F", "G", "H", "I", "J", "K", "L", "M",
            "N", "O", "P", "Q", "R", "S", "T", "U", "V", "W", "X", "Y", "Z"}
Lower   == {"a", "b", "c", "d", "e", "f", "g", "h", "i", "j", "k", "l", "m",
            "n", "o", "p", "q", "r", "s", "t", "u", "v", "w", "x", "y", "z"}
Digit   == {"0", "1", "2", "3", "4", "5", "6", "7", "8", "9"}
\* [!@#$%^&*(),.?":{}|<>]
Special == {"!", "@", "#", "$", "%", "^", "&", "*", "(", ")", ",", ".", "?",
            "\"", ":", "{", "}", "|", "<", ">"}
Weak    == "abc"
\* the characters of the passwords the model enters
chars(p) ==
    CASE p = ""    -> <<>>
      [] p = Weak  -> <<"a", "b", "c">>
      [] p = Short -> <<"A", "b", "1", "!", "x">>
      [] p = Pw1   -> <<"S", "e", "c", "r", "e", "t", "1", "!">>
      [] p = Pw2   -> <<"S", "e", "c", "r", "e", "t", "2", "!">>

\* validatePassword(password).isValid: at least 3 of the 5 criteria
validatePassword(password) ==
    LET c == chars(password)
        has(set) == IF \E k \in 1..Len(c) : c[k] \in set THEN 1 ELSE 0
        score == (IF Len(c) >= 8 THEN 1 ELSE 0)
                 + has(Upper) + has(Lower) + has(Digit) + has(Special)
    IN score >= 3

\* validateForm() of Register; the names entered carry no blanks
validateForm(name, email, password, confirmPassword) ==
    /\ name # ""
    /\ \E k \in 1..Len(email) : ~IsSpace(email[k])
    /\ validateEmail(email)
    /\ validatePassword(password)
    /\ password = confirmPassword

(* handleRegister(): signUp, then router.replace unless signUp threw *)
handleRegisterResult(S, name, email, password, confirmPassword, f) ==
    LET R == signUpResult(S, email, password, name, f)
    IN IF ~validateForm(name, email, password, confirmPassword)
       THEN [S EXCEPT !.outcome = "returned"]
       ELSE IF R.outcome = "thrown"
       THEN R
       ELSE [R EXCEPT !.route = "/(tabs)/dashboard"]

\* the missing-salt path with the stored hash left as it was
rehashKept(found, password, salt) == found

\* foundUser.passwordHash = hashPassword(password, backupSalt)
rehash(found, password, salt) ==
    [found EXCEPT !.passwordHash = hashPassword(password, salt)]

(* signIn(email, password, rememberMe) *)
signInResult(S, email, password, rememberMe, f) ==
    LET users == S.registered_users
        idx   == findIndexByEmail(users, email)
        found == users[idx]
        hasSalt    == found.id \in DOMAIN S.salts
        backupSalt == generateSalt(S.now)
        salt       == IF hasSalt THEN S.salts[found.id] ELSE backupSalt
        healed     == rehash(found, password, backupSalt)
        updatedUsers == [i \in 1..Len(users) |->
                            IF users[i].id = found.id THEN healed ELSE users[i]]
        foundUser  == IF hasSalt THEN found ELSE healed
        S0 == [S EXCEPT !.error = NoError]
        SR == touch(S0, {"registered_users"})
        SS == touch(SR, {"@auth_salt"})
        \* the missing-salt path: store the new salt, then the rewritten users
        S1 == [SS EXCEPT !.salts = setItem(S.salts, found.id, backupSalt)]
        S2 == IF hasSalt THEN SS ELSE [S1 EXCEPT !.registered_users = updatedUsers]
        S3 == createSession(S2, found.id, rememberMe)
        S4 == [touch(S3, {"@auth_store"})
                  EXCEPT !.auth_store = projection(foundUser),
                         !.user = projection(foundUser)]
    IN
    IF email = <<>> \/ password = ""
    THEN failed(S0, "auth/missing-fields", "returned", 0)
    ELSE IF ~validateEmail(email)
    THEN failed(S0, "auth/invalid-email", "returned", 0)
    ELSE IF idx = 0
    THEN failed(SR, "auth/user-not-found", "thrown", 0)
    ELSE IF ~hasSalt /\ f = "salt"
    THEN failed(SS, "auth/unknown", "thrown", found.id)
    ELSE IF ~hasSalt /\ f = "users"
    THEN failed(S1, "auth/unknown", "thrown", found.id)
    ELSE IF ~passwordMatches(password, salt, foundUser.passwordHash)
    THEN failed(S2, "auth/wrong-password", "thrown", found.id)
    ELSE IF f = "session"
    THEN failed(S2, "auth/unknown", "thrown", found.id)
    ELSE IF f = "store"
    THEN failed(S3, "auth/unknown", "thrown", found.id)
    ELSE [S4 EXCEPT !.outcome = "ok", !.uid = found.id,
                    !.route = "/(tabs)/dashboard"]

\* note "healed": the call met no salt key and stored a new one
signIn(email, password, rememberMe, f) ==
    /\ isInitialized
    /\ LET R == signInResult(Cur, email, password, rememberMe, f)
       IN ApplyNoted("signIn",
                     IF DOMAIN R.salts # DOMAIN salts THEN "healed" ELSE "", R)

\* every key of the store removed, as AsyncStorage.clear() would
handleSessionExpirationClearsAll(S) ==
    [S EXCEPT !.auth_session = Null, !.auth_store = Null,
              !.user = Null, !.sessionExpiry = NoExpiry,
              !.registered_users = <<>>, !.salts = NoKeys,
              !.reset_codes = NoKeys, !.records = NoRecords]

(* handleSessionExpiration() *)
handleSessionExpiration(S) ==
    [S EXCEPT !.auth_session = Null, !.auth_store = Null,
              !.user = Null, !.sessionExpiry = NoExpiry]

\* only the session key removed, the projection left in the store
signOutResultKeepsStore(S, f) ==
    IF f = "remove"
    THEN failed(S, "auth/sign-out-failed", "ok", 0)
    ELSE [S EXCEPT !.auth_session = Null,
                   !.user = Null, !.sessionExpiry = NoExpiry,
                   !.outcome = "ok", !.uid = 0]

(* signOut(): a failing multiRemove is caught, nothing is thrown *)
signOutResult(S, f) ==
    IF f = "remove"
    THEN failed(S, "auth/sign-out-failed", "ok", 0)
    ELSE [S EXCEPT !.auth_session = Null, !.auth_store = Null,
                   !.user = Null, !.sessionExpiry = NoExpiry,
                   !.outcome = "ok", !.uid = 0]

signOut(f) ==
    /\ isInitialized
    /\ Apply("signOut", signOutResult(Cur, f))

\* a code already stored for the e-mail is kept, the new one dropped
storeCodeIfAbsent(codes, email, data) ==
    IF email \in DOMAIN codes THEN codes ELSE setItem(codes, email, data)

\* AsyncStorage.setItem(`reset_code_${email}`, JSON.stringify({code, expiry}))
storeCode(codes, email, data) == setItem(codes, email, data)

(* requestPasswordReset(email); code is the value Math.random() yields *)
requestPasswordResetResult(S, email, code, f) ==
    LET S0 == [S EXCEPT !.error = NoError]
    IN
    IF findIndexByEmail(S.registered_users, email) = 0
    THEN failed(S0, "auth/user-not-found", "thrown", 0)
    ELSE IF f = "code"
    THEN failed(S0, "auth/reset-failed", "thrown", 0)
    ELSE [S0 EXCEPT !.reset_codes =
                        storeCode(S.reset_codes, email,
                                  [code |-> code, expiry |-> S.now + RESET_TTL]),
                    !.outcome = "ok", !.uid = 0]

\* note "overwrote": the call replaced a stored code by a different one
requestPasswordReset(email, code, f) ==
    /\ isInitialized
    /\ LET R == requestPasswordResetResult(Cur, email, code, f)
       IN ApplyNoted("requestPasswordReset",
                     IF /\ email \in DOMAIN reset_codes
                        /\ R.outcome = "ok"
                        /\ R.reset_codes[email].code # reset_codes[email].code
                     THEN "overwrote" ELSE "", R)

\* the code left in the store after a reset
consumeCodeKept(codes, email) == codes

\* AsyncStorage.removeItem(`reset_code_${email}`)
consumeCode(codes, email) == removeItem(codes, email)

\* the code compared before its expiry is looked at
resetCheckCodeFirst(S, email, code) ==
    IF email \notin DOMAIN S.reset_codes THEN "No reset code found"
    ELSE IF S.reset_codes[email].code # code THEN "Invalid code"
    ELSE IF codeExpired(S.now, S.reset_codes[email]) THEN "Reset code expired"
    ELSE IF findIndexByEmail(S.registered_users, email) = 0 THEN "User not found"
    ELSE ""

\* the checks of resetPassword in their order: the message of the Error the
\* first failing one throws, "" when all pass
resetCheck(S, email, code) ==
    IF email \notin DOMAIN S.reset_codes THEN "No reset code found"
    ELSE IF codeExpired(S.now, S.reset_codes[email]) THEN "Reset code expired"
    ELSE IF S.reset_codes[email].code # code THEN "Invalid code"
    ELSE IF findIndexByEmail(S.registered_users, email) = 0 THEN "User not found"
    ELSE ""

\* switch (err.message) of the catch block of resetPassword
resetErrorCode(m) ==
    CASE m = "No reset code found" -> "auth/no-reset-code"
      [] m = "Reset code expired"  -> "auth/code-expired"
      [] m = "Invalid code"        -> "auth/invalid-code"
      [] OTHER                     -> "auth/reset-failed"

(* resetPassword(email, code, newPassword): the Error is thrown again after
   setError, message is its message *)
resetPasswordResult(S, email, code, newPassword, f) ==
    LET users     == S.registered_users
        userIndex == findIndexByEmail(users, email)
        userId    == users[userIndex].id
        salt      == generateSalt(S.now)
        m  == resetCheck(S, email, code)
        S0 == [S EXCEPT !.error = NoError]
        S1 == [S0 EXCEPT !.registered_users[userIndex].passwordHash =
                             hashPassword(newPassword, salt)]
        S2 == [S1 EXCEPT !.salts = setItem(S.salts, userId, salt)]
        S3 == [S2 EXCEPT !.reset_codes = consumeCode(S.reset_codes, email)]
        rejected(T) == [failed(T, resetErrorCode("setItem"), "thrown", userId)
                           EXCEPT !.message = "setItem"]
    IN
    IF m # ""
    THEN [failed(S0, resetErrorCode(m), "thrown", 0) EXCEPT !.message = m]
    ELSE IF f = "users"
    THEN rejected(S0)
    ELSE IF f = "salt"
    THEN rejected(S1)
    ELSE IF f = "remove"
    THEN rejected(S2)
    ELSE [S3 EXCEPT !.outcome = "ok", !.uid = userId]

\* note "orphan": the code was good and the directory held no such e-mail
resetPassword(email, code, newPassword, f) ==
    /\ isInitialized
    /\ LET R == resetPasswordResult(Cur, email, code, newPassword, f)
       IN ApplyNoted("resetPassword",
                     IF R.message = "User not found" THEN "orphan" ELSE "", R)

(* updateUserProfile({name, email}): throws without touching the error state *)
updateUserProfileResult(S, name, email, f) ==
    LET users     == S.registered_users
        userIndex == findIndexById(users, S.user.id)
    IN
    IF S.user = Null
    THEN [S EXCEPT !.outcome = "thrown", !.uid = 0]
    ELSE IF userIndex = 0 \/ f = "users"
    THEN [S EXCEPT !.outcome = "thrown", !.uid = S.user.id]
    ELSE [S EXCEPT !.registered_users[userIndex].name = name,
                   !.registered_users[userIndex].email = email,
                   !.user.name = name,
                   !.user.email = email,
                   !.outcome = "ok", !.uid = S.user.id]

updateUserProfile(name, email, f) ==
    /\ isInitialized
    /\ Apply("updateUserProfile", updateUserProfileResult(Cur, name, email, f))

(* The setTimeout callback armed by startSessionTimer for deadline d *)
sessionTimeout(d) ==
    /\ d \in timers
    /\ now >= d
    /\ Apply("sessionTimeout",
             [handleSessionExpiration(Cur) EXCEPT !.timers = timers \ {d}])

(* The salt key of a user is gone from the store (keys cleared outside the
   provider, data of a build that stored no salt): the case the branch
   `if (!salt)` of signIn is written for *)
SaltLost(id) ==
    /\ isInitialized
    /\ id \in DOMAIN salts
    /\ Apply("saltLost", [Cur EXCEPT !.salts = removeItem(salts, id)])

(* addExpense(expenseData) / addIncome(incomeData) on the key K of the
   provider: throws before anything is read when no user is signed in *)
addRecordResult(S, K, amount) ==
    LET newRecord == [id |-> S.now, userId |-> S.user.id, amount |-> amount]
        all       == IF S.records[K].stored THEN S.records[K].items ELSE <<>>
    IN
    IF S.user = Null
    THEN [S EXCEPT !.outcome = "thrown", !.uid = 0,
                   !.message = "User not authenticated"]
    ELSE [S EXCEPT !.records[K] = [stored |-> TRUE,
                                  items  |-> Append(all, newRecord)],
                   !.lists[K] = Append(S.lists[K], newRecord),
                   !.outcome = "ok", !.uid = S.user.id]

\* fewer records are stored than the model follows
room ==
    Len(records["@expenses"].items) + Len(records["@incomes"].items) < MaxRecords

addExpense(amount) ==
    /\ isInitialized
    /\ user # Null => room
    /\ Apply("addExpense", addRecordResult(Cur, "@expenses", amount))

addIncome(amount) ==
    /\ isInitialized
    /\ user # Null => room
    /\ Apply("addIncome", addRecordResult(Cur, "@incomes", amount))

----------------------------------------------------------------------------
(* signUp, await by await.  A step is the continuation that runs when the
   storage operation the call awaits has completed; the operation takes
   effect in that step. *)
\* the new user pushed onto the array stored now, not onto the one read
pushedOntoStored(snapshot, stored, newUser) == Append(stored, newUser)

\* users.push(newUser) on the array parsed from what getItem returned
pushed(snapshot, stored, newUser) == Append(snapshot, newUser)

\* the call: clearError, validation, then getItem('registered_users') issued
signUpCall(c, email, password, name) ==
    LET V == signUpResult(Cur, email, password, name, "none")
        P == [Idle EXCEPT !.email = email, !.password = password, !.name = name]
    IN
    /\ isInitialized
    /\ pending[c].pc = "idle"
    /\ IF V.outcome = "returned"
       THEN Commit("signUp", "", V,
                   [pending EXCEPT ![c] = [P EXCEPT !.pc = "done",
                                                    !.outcome = "returned"]])
       ELSE Commit("signUp", "", [Cur EXCEPT !.error = NoError],
                   [pending EXCEPT ![c] = [P EXCEPT !.pc = "getUsers"]])

\* getItem has returned: duplicate check, user id, setItem of the salt issued
signUpGotUsers(c) ==
    LET P == pending[c]
    IN
    /\ P.pc = "getUsers"
    /\ IF emailTaken(registered_users, P.email)
       THEN Commit("signUp", "", failed(Cur, "auth/email-already-in-use", "thrown", 0),
                   [pending EXCEPT ![c] = [P EXCEPT !.pc = "done",
                                                    !.outcome = "thrown"]])
       ELSE Commit("signUp", "", Cur,
                   [pending EXCEPT ![c] = [P EXCEPT !.pc = "setSalt",
                                                    !.users = registered_users,
                                                    !.userId = now]])

\* the salt is stored; setItem of the users issued
signUpSaltStored(c) ==
    LET P == pending[c]
    IN
    /\ P.pc = "setSalt"
    /\ Commit("signUp", "",
              [Cur EXCEPT !.salts = setItem(salts, P.userId, generateSalt(P.userId))],
              [pending EXCEPT ![c] = [P EXCEPT !.pc = "setUsers"]])

\* the users are stored; setUser, createSession entered and its setItem issued
signUpUsersStored(c) ==
    LET P == pending[c]
        newUser == newStoredUser(P.userId, P.email, P.name, P.password,
                                 generateSalt(P.userId))
    IN
    /\ P.pc = "setUsers"
    /\ Commit("signUp", "",
              [Cur EXCEPT !.registered_users = pushed(P.users, registered_users, newUser),
                          !.user = projection(newUser)],
              [pending EXCEPT ![c] = [P EXCEPT !.pc = "setSession", !.t = now]])

\* the session is stored; setSessionExpiry, startSessionTimer, return
signUpSessionStored(c) ==
    LET P == pending[c]
        session == sessionData(P.userId, TRUE, P.t)
    IN
    /\ P.pc = "setSession"
    /\ Commit("signUp", "",
              [Cur EXCEPT !.auth_session = session,
                          !.sessionExpiry = session.expiresAt,
                          !.timers = armed(timers, session.expiresAt, now)],
              [pending EXCEPT ![c] = [P EXCEPT !.pc = "done", !.outcome = "ok"]])

----------------------------------------------------------------------------
(* SavingsProvider and BudgetProvider *)

\* loadSavingsData(), the mount effect: a stored value replaces the default
loadSavingsData(S) ==
    [S EXCEPT !.currentSavings = IF S.numbers["currentSavings"].stored
                                 THEN S.numbers["currentSavings"].value ELSE @,
              !.savingsGoal = IF S.numbers["savingsGoal"].stored
                              THEN S.numbers["savingsGoal"].value ELSE @]

\* loadBudget(), the mount effect
loadBudget(S) ==
    [S EXCEPT !.monthlyBudget = IF S.numbers["monthlyBudget"].stored
                                THEN S.numbers["monthlyBudget"].value ELSE @]

\* const newTotal = currentSavings + amount, with the currentSavings of the
\* render the callback was created in
newTotal(S, amount) == S.currentSavings + amount

(* addToSavings(amount) up to its await: setItem('currentSavings') issued *)
addToSavingsResult(S, amount) ==
    [S EXCEPT !.adding = Append(@, newTotal(S, amount)),
              !.outcome = "ok", !.uid = 0]

(* addToSavings resumed: the total is stored, setCurrentSavings(newTotal) *)
addToSavingsStoredResult(S) ==
    LET t == Head(S.adding)
    IN [S EXCEPT !.numbers["currentSavings"] = [stored |-> TRUE, value |-> t],
                 !.currentSavings = t,
                 !.adding = Tail(@),
                 !.outcome = "ok", !.uid = 0]

addToSavings(amount) ==
    /\ isInitialized
    /\ Len(adding) < Cardinality(Calls)
    /\ newTotal(Cur, amount) <= MaxSavings
    /\ Apply("addToSavings", addToSavingsResult(Cur, amount))

addToSavingsStored ==
    /\ adding # <<>>
    /\ Apply("addToSavings", addToSavingsStoredResult(Cur))

(* setSavingsGoal(amount) *)
setSavingsGoalResult(S, amount) ==
    [S EXCEPT !.numbers["savingsGoal"] = [stored |-> TRUE, value |-> amount],
              !.savingsGoal = amount,
              !.outcome = "ok", !.uid = 0]

setSavingsGoal(amount) ==
    /\ isInitialized
    /\ Apply("setSavingsGoal", setSavingsGoalResult(Cur, amount))

(* setMonthlyBudget(amount) *)
setMonthlyBudgetResult(S, amount) ==
    [S EXCEPT !.numbers["monthlyBudget"] = [stored |-> TRUE, value |-> amount],
              !.monthlyBudget = amount,
              !.outcome = "ok", !.uid = 0]

setMonthlyBudget(amount) ==
    /\ isInitialized
    /\ Apply("setMonthlyBudget", setMonthlyBudgetResult(Cur, amount))

(* The process is killed and started again: the providers are constructed
   anew and the mount effects of SavingsProvider and BudgetProvider load what
   is stored *)
restartResult(S) ==
    loadBudget(loadSavingsData(
        [S EXCEPT !.user = Null, !.sessionExpiry = NoExpiry, !.error = NoError,
                  !.isInitialized = FALSE, !.timers = {},
                  !.lists = [K \in Keys |-> <<>>],
                  !.currentSavings = 0, !.savingsGoal = DEFAULT_GOAL,
                  !.monthlyBudget = 0, !.adding = <<>>]))

Restart ==
    /\ isInitialized
    /\ Apply("restart", restartResult(Cur))

\* a stored session taken as valid whatever its expiresAt
sessionValidAlways(t, session) == TRUE

\* Date.now() < session.expiresAt
sessionValid(t, session) == t < session.expiresAt

\* the catch block doing nothing
recoverNothing(S) == S

\* the catch block of loadStoredAuth: multiRemove, setUser(null),
\* setSessionExpiry(null)
recover(S) ==
    [S EXCEPT !.auth_session = Null, !.auth_store = Null,
              !.user = Null, !.sessionExpiry = NoExpiry]

(* loadStoredAuth(), the mount effect; ioFail: reading or parsing throws *)
loadStoredAuthResult(S, ioFail) ==
    LET session == S.auth_session
        R == IF ioFail
             THEN recover(S)
             ELSE IF session = Null
             THEN S
             ELSE IF sessionValid(S.now, session)
             THEN IF S.auth_store # Null
                  THEN [S EXCEPT !.user = S.auth_store,
                                 !.sessionExpiry = session.expiresAt,
                                 !.timers = armed(S.timers, session.expiresAt, S.now)]
                  ELSE S
             ELSE handleSessionExpiration(S)
    IN [R EXCEPT !.isInitialized = TRUE, !.outcome = "ok",
                 !.uid = IF R.user = Null THEN 0 ELSE R.user.id]

\* note "recovered": reading threw with a session stored; "expired": the
\* stored session was read and its expiresAt had passed
loadStoredAuth(ioFail) ==
    /\ ~isInitialized
    /\ ApplyNoted("loadStoredAuth",
                  IF auth_session = Null THEN ""
                  ELSE IF ioFail THEN "recovered"
                  ELSE IF now >= auth_session.expiresAt THEN "expired"
                  ELSE "",
                  loadStoredAuthResult(Cur, ioFail))

----------------------------------------------------------------------------
(* The calls the screens make.  The ForgotPassword and ResetPassword screens
   pass an e-mail that matches the pattern and a new password their
   validateForm accepts (never empty); PersonalInfo passes name and e-mail
   unchecked.  F is the set of storage writes that may reject. *)
SessionCalls(F) ==
    \/ \E t \in SignUps, f \in F \cap {"none", "salt", "users", "session"} :
          signUp(t[1], t[2], t[3], f)
    \/ \E t \in SignIns, r \in BOOLEAN,
          f \in F \cap {"none", "salt", "users", "session", "store"} :
          signIn(t[1], t[2], r, f)
    \/ \E f \in F \cap {"none", "remove"} : signOut(f)

Lifecycle ==
    \/ \E d \in timers : sessionTimeout(d)
    \/ Restart
    \/ \E b \in BOOLEAN : loadStoredAuth(b)

(* Sessions: sign-up, sign-in, sign-out, expiry and restart; storage works *)
Next ==
    \/ SessionCalls({"none"})
    \/ Lifecycle
    \/ Tick({DAY_MS, SESSION_DURATION}, SessionHorizon)

Spec == Init /\ [][Next]_vars

(* Password reset; storage works *)
NextReset ==
    \/ \E t \in {<<EmailA, Pw1, "Ann">>, <<EmailD, Pw1, "Ann">>} :
          signUp(t[1], t[2], t[3], "none")
    \/ \E t \in {<<EmailA, Pw1>>, <<EmailA, Pw2>>} :
          signIn(t[1], t[2], FALSE, "none")
    \/ \E e \in {EmailA, EmailD}, c \in Codes : requestPasswordReset(e, c, "none")
    \/ \E e \in {EmailA, EmailD}, c \in Codes : resetPassword(e, c, Pw2, "none")
    \/ loadStoredAuth(FALSE)
    \/ Tick({RESET_TTL}, ResetHorizon)

SpecReset == Init /\ [][NextReset]_vars

(* The store misbehaves: a write may reject, a salt key may be gone *)
NextFault ==
    \/ \E f \in {"none", "salt", "users", "session"} :
          signUp(EmailA, Pw1, "Ann", f)
    \/ \E t \in {<<EmailA, Pw1>>, <<EmailA, Pw2>>},
          f \in {"none", "salt", "users", "session", "store"} :
          signIn(t[1], t[2], FALSE, f)
    \/ \E f \in {"none", "remove"} : signOut(f)
    \/ \E f \in {"none", "code"} : requestPasswordReset(EmailA, "111111", f)
    \/ \E f \in {"none", "users", "salt", "remove"} :
          resetPassword(EmailA, "111111", Pw2, f)
    \/ \E id \in DOMAIN salts : SaltLost(id)
    \/ loadStoredAuth(FALSE)
    \/ Tick({RESET_TTL}, ResetHorizon)

SpecFault == Init /\ [][NextFault]_vars

----------------------------------------------------------------------------
(* Profile updates from PersonalInfo; storage works *)
Updates == {<<"Bob", EmailD>>, <<"Ann", EmailA>>}

NextProfile ==
    \/ \E t \in {<<EmailA, Pw1, "Ann">>, <<EmailD, Pw1, "Ann">>} :
          signUp(t[1], t[2], t[3], "none")
    \/ \E e \in {EmailA, EmailD} : signIn(e, Pw1, FALSE, "none")
    \/ signOut("none")
    \/ \E t \in Updates : updateUserProfile(t[1], t[2], "none")
    \/ Restart
    \/ loadStoredAuth(FALSE)
    \/ Tick({DAY_MS}, SessionHorizon)

SpecProfile == Init /\ [][NextProfile]_vars

(* Expense and income records of the signed-in user; storage works *)
NextData ==
    \/ \E t \in {<<EmailA, Pw1, "Ann">>, <<EmailD, Pw1, "Ann">>} :
          signUp(t[1], t[2], t[3], "none")
    \/ \E e \in {EmailA, EmailD} : signIn(e, Pw1, FALSE, "none")
    \/ signOut("none")
    \/ \E a \in Amounts : addExpense(a)
    \/ \E a \in Amounts : addIncome(a)
    \/ Restart
    \/ loadStoredAuth(FALSE)
    \/ Tick({DAY_MS}, DataHorizon)

SpecData == Init /\ [][NextData]_vars

(* The end of a session with records and a reset code stored; storage works *)
NextPurge ==
    \/ signUp(EmailA, Pw1, "Ann", "none")
    \/ signIn(EmailA, Pw1, FALSE, "none")
    \/ signOut("none")
    \/ requestPasswordReset(EmailA, "111111", "none")
    \/ \E a \in Amounts : addExpense(a)
    \/ \E a \in Amounts : addIncome(a)
    \/ \E d \in timers : sessionTimeout(d)
    \/ loadStoredAuth(FALSE)
    \/ Tick({DAY_MS}, DataHorizon)

SpecPurge == Init /\ [][NextPurge]_vars

(* Savings and budget of the installation, two accounts; storage works *)
NextSavings ==
    \/ \E t \in {<<EmailA, Pw1, "Ann">>, <<EmailD, Pw1, "Ann">>} :
          signUp(t[1], t[2], t[3], "none")
    \/ signIn(EmailA, Pw1, FALSE, "none")
    \/ signOut("none")
    \/ \E a \in SavingsAmounts : addToSavings(a)
    \/ addToSavingsStored
    \/ \E g \in Goals : setSavingsGoal(g)
    \/ \E b \in Budgets : setMonthlyBudget(b)
    \/ loadStoredAuth(FALSE)
    \/ Tick({DAY_MS}, DataHorizon)

SpecSavings == Init /\ [][NextSavings]_vars

(* Every auth operation on one installation; storage works, no key is lost *)
AllHorizon == DAY_MS + RESET_TTL

NextAll ==
    \/ signUp(EmailA, Pw1, "Ann", "none")
    \/ \E p \in {Pw1, Pw2} : signIn(EmailA, p, FALSE, "none")
    \/ signOut("none")
    \/ requestPasswordReset(EmailA, "111111", "none")
    \/ \E c \in Codes : resetPassword(EmailA, c, Pw2, "none")
    \/ \E t \in Updates : updateUserProfile(t[1], t[2], "none")
    \/ \E d \in timers : sessionTimeout(d)
    \/ loadStoredAuth(FALSE)
    \/ Tick({RESET_TTL, DAY_MS}, AllHorizon)

SpecAll == Init /\ [][NextAll]_vars

(* Two signUp calls in flight; storage works *)
NextRace ==
    \/ loadStoredAuth(FALSE)
    \/ \E c \in Calls, t \in {<<EmailA, Pw1, "Ann">>, <<EmailD, Pw1, "Ann">>,
                                <<EmailA, Short, "Ann">>} :
          signUpCall(c, t[1], t[2], t[3])
    \/ \E c \in Calls : signUpGotUsers(c)
    \/ \E c \in Calls : signUpSaltStored(c)
    \/ \E c \in Calls : signUpUsersStored(c)
    \/ \E c \in Calls : signUpSessionStored(c)
    \/ Tick({DAY_MS}, SessionHorizon)

SpecRace == Init /\ [][NextRace]_vars

----------------------------------------------------------------------------
(* Arguments the claims range over.  A claim is stated on the handler       *)
(* operators: at every reachable state, for every argument, the state the   *)
(* handler would leave.                                                     *)
Emails     == {<<>>, EmailBad, EmailA, EmailD}
Passwords  == {"", Short, Pw1, Pw2}
Names      == {"", "Ann"}
\* what the Register screen lets through: a name, a well-formed e-mail and a
\* password scoring 3 of 5 on validatePassword ("Ab1!x" scores 4, length 5)
FormPasswords == {Short, Pw1, Pw2}
Delays     == {0, DAY_MS}
later(S, d) == [S EXCEPT !.now = S.now + d]
registered(S, email) ==
    \E i \in 1..Len(S.registered_users) : S.registered_users[i].email = email
\* the password a stored hash was computed from
passwordOf(u) == u.passwordHash[1]
saltOf(u)     == u.passwordHash[2]

(* C1: for every e-mail, name and password that pass the validation of
   signUp, with an e-mail that is not registered, signUp followed by signIn
   with the same e-mail and password succeeds and signs in the user id that
   signUp assigned *)
C1_SignUpThenSignIn ==
    isInitialized =>
        \A e \in Emails, p \in Passwords, n \in Names, r \in BOOLEAN, d \in Delays :
            registers(Cur, e, p, n) =>
                LET R1 == signUpResult(Cur, e, p, n, "none")
                    R2 == signInResult(later(R1, d), e, p, r, "none")
                IN /\ R1.outcome = "ok"
                   /\ R2.outcome = "ok"
                   /\ R2.error = NoError
                   /\ R2.user # Null
                   /\ R2.user.id = R1.uid
                   /\ R2.auth_session.userId = R1.uid

\* signIn ran in the very millisecond signUp assigned the id of the user it
\* signed in, and succeeded
C1_Witness ==
    /\ last.op = "signIn"
    /\ error = NoError
    /\ user # Null
    /\ auth_session # Null
    /\ auth_session.token = <<user.id, user.id>>
    /\ auth_store = user

(* C2 as claimed: signUp with an e-mail that is already registered always
   fails with auth/email-already-in-use and leaves registered_users as it
   was *)
C2_Original ==
    isInitialized =>
        \A e \in {EmailA, EmailD}, p \in FormPasswords :
            registered(Cur, e) =>
                LET R == signUpResult(Cur, e, p, "Ann", "none")
                IN /\ R.error = "auth/email-already-in-use"
                   /\ R.registered_users = registered_users

(* C2 amended: signUp with a non-empty name, a well-formed e-mail that is
   already registered and a password of at least 6 characters throws with
   auth/email-already-in-use and leaves registered_users (and every other
   stored key) as it was *)
C2_DuplicateEmail ==
    isInitialized =>
        \A e \in Emails, p \in Passwords, n \in Names :
            (/\ registered(Cur, e)
             /\ n # "" /\ validateEmail(e) /\ Len(p) >= MIN_PASSWORD) =>
                LET R == signUpResult(Cur, e, p, n, "none")
                IN /\ R.outcome = "thrown"
                   /\ R.error = "auth/email-already-in-use"
                   /\ R.registered_users = registered_users
                   /\ R.salts = salts
                   /\ R.auth_session = auth_session
                   /\ R.auth_store = auth_store
                   /\ R.user = user

C2_Witness ==
    /\ last.op = "signUp"
    /\ error = "auth/email-already-in-use"
    /\ Len(registered_users) = 1

(* C3: when the salt of a user is stored, signIn with the registered e-mail
   of that user and a password other than the registered one throws with
   auth/wrong-password, creates no session and leaves registered_users
   (the passwordHash) as it was *)
C3_WrongPassword ==
    isInitialized =>
        \A i \in 1..Len(registered_users), p \in Passwords \ {""}, r \in BOOLEAN :
            LET u == registered_users[i]
            IN (/\ findIndexByEmail(registered_users, u.email) = i
                /\ u.id \in DOMAIN salts
                /\ p # passwordOf(u)) =>
                   LET R == signInResult(Cur, u.email, p, r, "none")
                   IN /\ R.outcome = "thrown"
                      /\ R.error = "auth/wrong-password"
                      /\ R.auth_session = auth_session
                      /\ R.auth_store = auth_store
                      /\ R.user = user
                      /\ R.timers = timers
                      /\ R.registered_users = registered_users
                      /\ R.salts = salts

C3_Witness ==
    /\ last.op = "signIn"
    /\ error = "auth/wrong-password"
    /\ \A i \in 1..Len(registered_users) : registered_users[i].id \in DOMAIN salts
    /\ \A i \in 1..Len(registered_users) : passwordOf(registered_users[i]) = Pw1

\* a stored session: when it was created and whether with rememberMe
createdAt(session)  == session.token[2]
remembered(session) == session.expiresAt - createdAt(session) = SESSION_DURATION
\* the user a cold start restores from the stored state of S
restored(S) == loadStoredAuthResult(restartResult(S), FALSE).user

(* C4 as claimed: a session created with rememberMe=false is not restored by
   loadStoredAuth once more than 1 day has passed since its creation; a
   session created with rememberMe=true is restored after more than 1 day
   (and less than 7), and is not restored once more than 7 days have passed *)
C4_Original ==
    (isInitialized /\ auth_session # Null) =>
        LET elapsed == now - createdAt(auth_session)
        IN /\ (~remembered(auth_session) /\ elapsed > DAY_MS)
                => restored(Cur) = Null
           /\ (remembered(auth_session) /\ elapsed > DAY_MS
                                        /\ elapsed < SESSION_DURATION)
                => (restored(Cur) # Null /\ restored(Cur).id = auth_session.userId)
           /\ (remembered(auth_session) /\ elapsed > SESSION_DURATION)
                => restored(Cur) = Null

(* C5: requestPasswordReset(email), then resetPassword(email, code,
   newPassword) with the stored code within 5 minutes succeeds; signIn with
   the new password then succeeds; a second resetPassword with the same code
   fails because the code was consumed *)
C5_ResetFlow ==
    isInitialized =>
        \A e \in {EmailA, EmailD}, c \in Codes, p \in {Short, Pw2},
           d \in {0, RESET_TTL}, r \in {FALSE} :
            LET R1 == requestPasswordResetResult(Cur, e, c, "none")
                R2 == resetPasswordResult(later(R1, d), e, R1.reset_codes[e].code,
                                          p, "none")
                R3 == signInResult(R2, e, p, r, "none")
                R4 == resetPasswordResult(R2, e, c, p, "none")
            IN R1.outcome = "ok" =>
                  /\ R2.outcome = "ok"
                  /\ e \notin DOMAIN R2.reset_codes
                  /\ R3.outcome = "ok"
                  /\ R3.user.id = R2.uid
                  /\ R4.outcome = "thrown"
                  /\ R4.error = "auth/no-reset-code"
                  /\ R4.registered_users = R2.registered_users

\* a user whose password was reset (to Pw2, with a salt younger than the
\* user) is signed in, at the instant of the reset, and the code is gone
C5_Witness ==
    /\ last.op = "signIn"
    /\ error = NoError
    /\ user # Null
    /\ user.email \notin DOMAIN reset_codes
    /\ \E i \in 1..Len(registered_users) :
          LET u == registered_users[i]
          IN /\ u.id = user.id
             /\ passwordOf(u) = Pw2
             /\ saltOf(u) = generateSalt(now)
             /\ now > u.id

(* C6: resetPassword with a stored code whose expiry has passed throws with
   auth/code-expired; with a stored code that has not expired and differs
   from the one supplied it throws with auth/invalid-code; in both cases
   registered_users (the passwordHash) and the stored salts are as before *)
C6_BadCode ==
    isInitialized =>
        \A e \in DOMAIN reset_codes, c \in Codes \cup {"000000"}, p \in FormPasswords :
            LET R == resetPasswordResult(Cur, e, c, p, "none")
                resetData == reset_codes[e]
            IN /\ now > resetData.expiry =>
                    /\ R.outcome = "thrown"
                    /\ R.error = "auth/code-expired"
                    /\ R.registered_users = registered_users
                    /\ R.salts = salts
               /\ (now <= resetData.expiry /\ resetData.code # c) =>
                    /\ R.outcome = "thrown"
                    /\ R.error = "auth/invalid-code"
                    /\ R.registered_users = registered_users
                    /\ R.salts = salts

C6_Witness ==
    /\ last.op = "resetPassword"
    /\ error = "auth/code-expired"
    /\ \E e \in DOMAIN reset_codes :
          /\ now > reset_codes[e].expiry
          /\ registered(Cur, e)

(* C7: signOut is idempotent: two calls in a row raise no error, and after
   each of them neither @auth_session nor @auth_store is stored and the
   current user is null *)
C7_SignOutIdempotent ==
    isInitialized =>
        LET R1 == signOutResult(Cur, "none")
            R2 == signOutResult(R1, "none")
            out(R) == /\ R.outcome = "ok"
                      /\ R.error = error
                      /\ R.auth_session = Null
                      /\ R.auth_store = Null
                      /\ R.user = Null
        IN out(R1) /\ out(R2) /\ R2 = R1

\* a second signOut in a row has run, in an installation with an account
C7_Witness ==
    /\ last.op = "signOut"
    /\ last.twice
    /\ registered_users # <<>>
    /\ auth_session = Null /\ auth_store = Null /\ user = Null

(* C8 as claimed: after any sequence of completed auth operations, if
   @auth_session holds a session that has not expired then @auth_store
   holds a public user projection *)
C8_Original ==
    (isInitialized /\ auth_session # Null /\ now < auth_session.expiresAt)
        => auth_store # Null

(* C9 as claimed, for the users whose salt key is stored: the passwordHash
   in registered_users is the hash of some password with the salt stored
   under @auth_salt_<userId>, also after a storage write has failed *)
C9_Original ==
    \A i \in 1..Len(registered_users) :
        LET u == registered_users[i]
        IN u.id \in DOMAIN salts =>
              \E p \in Passwords : u.passwordHash = hashPassword(p, salts[u.id])

(* C10 as claimed: a stored session goes away only by signOut, by a load
   that finds it expired or unreadable, or by the expiry timer at or after
   the expiresAt of that very session *)
C10_Original ==
    [][(auth_session # Null /\ auth_session' = Null) =>
          \/ last'.op = "signOut"
          \/ last'.op = "loadStoredAuth"
          \/ (last'.op = "sessionTimeout" /\ now >= auth_session.expiresAt)]_vars

(* C11 as claimed: a successful updateUserProfile of a signed-in user whose
   projection was stored merges name and e-mail into the registered_users
   entry, into the in-memory user and into the projection under @auth_store,
   so that a later loadStoredAuth with the same unexpired session restores
   the updated name and e-mail *)
C11_Original ==
    (isInitialized /\ user # Null /\ auth_store = user) =>
        \A t \in Updates :
            LET R == updateUserProfileResult(Cur, t[1], t[2], "none")
                i == findIndexById(R.registered_users, user.id)
            IN R.outcome = "ok" =>
                  /\ R.registered_users[i].name = t[1]
                  /\ R.registered_users[i].email = t[2]
                  /\ R.user = [id |-> user.id, email |-> t[2], name |-> t[1]]
                  /\ R.auth_store = R.user
                  /\ (auth_session # Null /\ now < auth_session.expiresAt)
                        => restored(R) = R.user

(* C12 as claimed: no two entries of registered_users have the same e-mail *)
C12_Original ==
    \A i \in 1..Len(registered_users), j \in 1..Len(registered_users) :
        i # j => registered_users[i].email # registered_users[j].email

\* e-mails that are not of the shape local@domain.tld
BadEmails == {EmailBad, <<"@", "b", ".", "c">>, <<"a", "@", "b", ".">>,
              <<"a", " ", "@", "b", ".", "c">>}
\* the handler returned after setError and neither read nor wrote a key
untouched(R) ==
    /\ R.outcome = "returned"
    /\ R.touched = {}
    /\ R.registered_users = registered_users
    /\ R.salts = salts
    /\ R.auth_session = auth_session
    /\ R.auth_store = auth_store
    /\ R.reset_codes = reset_codes
    /\ R.user = user
    /\ R.sessionExpiry = sessionExpiry
    /\ R.timers = timers

(* C13: signUp called with an empty field, an e-mail not of the shape
   local@domain.tld or a password shorter than 6 characters, and signIn
   called with an empty field or such an e-mail, return before any storage
   key is read or written: directory, salts, session, projection and the
   in-memory user are as before *)
C13_ValidationFirst ==
    isInitialized =>
        \A e \in Emails \cup BadEmails, p \in Passwords :
            /\ \A n \in Names :
                  (e = <<>> \/ p = "" \/ n = "" \/ e \in BadEmails \/ Len(p) < 6)
                      => untouched(signUpResult(Cur, e, p, n, "none"))
            /\ \A r \in BOOLEAN :
                  (e = <<>> \/ p = "" \/ e \in BadEmails)
                      => untouched(signInResult(Cur, e, p, r, "none"))

\* signIn with a malformed e-mail has returned, in an installation with an
\* account and a user signed in, who still is
C13_Witness ==
    /\ last.op = "signIn"
    /\ error = "auth/invalid-email"
    /\ registered_users # <<>>
    /\ user # Null
    /\ auth_session # Null

(* C14: signOut and the handling of an expiry remove the keys @auth_session
   and @auth_store and nothing else: registered_users, the salt keys, the
   reset codes and the stored expenses and incomes are as before *)
C14_PurgeOnlySession ==
    isInitialized =>
        \A R \in {signOutResult(Cur, "none"), handleSessionExpiration(Cur)} :
            /\ R.auth_session = Null
            /\ R.auth_store = Null
            /\ R.registered_users = registered_users
            /\ R.salts = salts
            /\ R.reset_codes = reset_codes
            /\ R.records = records

\* the expiry timer has ended a session with an account, its salt, a reset
\* code, an expense and an income stored
C14_Witness ==
    /\ last.op = "sessionTimeout"
    /\ auth_session = Null /\ auth_store = Null
    /\ registered_users # <<>>
    /\ DOMAIN salts # {}
    /\ DOMAIN reset_codes # {}
    /\ records["@expenses"].items # <<>>
    /\ records["@incomes"].items # <<>>

(* C15: a second requestPasswordReset for an e-mail, with a code other than
   the first, leaves that one code stored for the e-mail, with an expiry 5
   minutes after the second request; resetPassword with the first code then
   throws auth/invalid-code and changes no password, and resetPassword with
   the second code succeeds up to its own expiry *)
C15_LatestCodeOnly ==
    isInitialized =>
        \A e \in {EmailA, EmailD}, c1 \in Codes, c2 \in Codes, d \in {0, RESET_TTL} :
            LET R1 == requestPasswordResetResult(Cur, e, c1, "none")
                R2 == requestPasswordResetResult(later(R1, d), e, c2, "none")
                T1 == resetPasswordResult(R2, e, c1, Pw2, "none")
                T2 == resetPasswordResult(later(R2, RESET_TTL), e, c2, Pw2, "none")
            IN (R1.outcome = "ok" /\ c1 # c2) =>
                  /\ R2.outcome = "ok"
                  /\ R2.reset_codes[e] = [code |-> c2, expiry |-> R2.now + RESET_TTL]
                  /\ T1.outcome = "thrown"
                  /\ T1.error = "auth/invalid-code"
                  /\ T1.registered_users = R2.registered_users
                  /\ T1.salts = R2.salts
                  /\ T2.outcome = "ok"

\* a request has replaced the code stored for its e-mail by a different one
C15_Witness ==
    /\ last.op = "requestPasswordReset"
    /\ last.note = "overwrote"
    /\ error = NoError

(* C16: when the salt key of a registered user is absent, signIn with the
   e-mail of that user and any non-empty password stores a new salt, rewrites
   the passwordHash from that password and succeeds; afterwards signIn
   accepts that password and throws auth/wrong-password for any other *)
C16_MissingSaltHeals ==
    isInitialized =>
        \A i \in 1..Len(registered_users), p \in Passwords \ {""},
           q \in Passwords \ {""} :
            LET u == registered_users[i]
            IN (/\ findIndexByEmail(registered_users, u.email) = i
                /\ u.id \notin DOMAIN salts) =>
                   LET R1 == signInResult(Cur, u.email, p, FALSE, "none")
                       R2 == signInResult(R1, u.email, q, FALSE, "none")
                   IN /\ R1.outcome = "ok"
                      /\ R1.user.id = u.id
                      /\ u.id \in DOMAIN R1.salts
                      /\ R1.registered_users[i].passwordHash =
                            hashPassword(p, R1.salts[u.id])
                      /\ q = p => R2.outcome = "ok"
                      /\ q # p => (/\ R2.outcome = "thrown"
                                   /\ R2.error = "auth/wrong-password")

\* signIn met no salt key, stored one and signed the user in
C16_Witness ==
    /\ last.op = "signIn"
    /\ last.note = "healed"
    /\ error = NoError
    /\ user # Null
    /\ auth_store = user
    /\ user.id \in DOMAIN salts

(* C17: when reading or parsing the stored session or projection throws in
   loadStoredAuth, the keys @auth_session and @auth_store are removed, user
   and sessionExpiry are null, nothing is thrown to the caller and
   isInitialized becomes true *)
C17_LoadFailure ==
    ~isInitialized =>
        LET R == loadStoredAuthResult(Cur, TRUE)
        IN /\ R.auth_session = Null
           /\ R.auth_store = Null
           /\ R.user = Null
           /\ R.sessionExpiry = NoExpiry
           /\ R.outcome = "ok"
           /\ R.isInitialized
           /\ R.registered_users = registered_users
           /\ R.salts = salts

\* a load whose read threw, with a session stored, has run
C17_Witness ==
    /\ last.op = "loadStoredAuth"
    /\ last.note = "recovered"
    /\ isInitialized
    /\ auth_session = Null /\ auth_store = Null /\ user = Null

(* C18: when loadStoredAuth reads a stored session whose expiresAt has
   passed, the user stays null and both the stored session and the stored
   projection are removed; no later load restores a user from it *)
C18_ExpiredNotRestored ==
    (~isInitialized /\ auth_session # Null /\ now >= auth_session.expiresAt) =>
        LET R == loadStoredAuthResult(Cur, FALSE)
        IN /\ R.user = Null
           /\ R.sessionExpiry = NoExpiry
           /\ R.auth_session = Null
           /\ R.auth_store = Null
           /\ \A d \in Delays : restored(later(R, d)) = Null

\* a load that read an expired session has run
C18_Witness ==
    /\ last.op = "loadStoredAuth"
    /\ last.note = "expired"
    /\ isInitialized
    /\ auth_session = Null /\ auth_store = Null /\ user = Null

\* call c has got past the duplicate check: it holds the array it read
hasRead(c) == pending[c].pc \in {"setSalt", "setUsers", "setSession", "done"}
                 /\ pending[c].outcome # "thrown" /\ pending[c].outcome # "returned"
\* both calls read registered_users before the other wrote it
bothReadFirst(c1, c2) ==
    /\ hasRead(c1) /\ hasRead(c2)
    /\ ~emailTaken(pending[c1].users, pending[c2].email)
    /\ ~emailTaken(pending[c2].users, pending[c1].email)

(* C19: when two signUp calls with distinct e-mails, neither registered,
   both read registered_users before either writes it, both calls return
   without an error and registered_users ends up holding one of the two
   users only *)
C19_LostRegistration ==
    \A c1 \in Calls, c2 \in Calls :
        (/\ c1 # c2
         /\ pending[c1].pc = "done" /\ pending[c2].pc = "done"
         /\ pending[c1].email # pending[c2].email
         /\ bothReadFirst(c1, c2)) =>
            /\ pending[c1].outcome = "ok"
            /\ pending[c2].outcome = "ok"
            /\ registered(Cur, pending[c1].email) # registered(Cur, pending[c2].email)

\* both calls have returned ok and one user is registered
C19_Witness ==
    /\ pending[1].outcome = "ok"
    /\ pending[2].outcome = "ok"
    /\ pending[1].email # pending[2].email
    /\ pending[1].users = <<>> /\ pending[2].users = <<>>
    /\ Len(registered_users) = 1

(* C20: addExpense / addIncome store a record carrying the id of the user
   signed in at the call, and throw 'User not authenticated' writing nothing
   when no user is signed in; the list of a provider (from which the list it
   exposes is sorted and filtered) holds no record of another user id, and is
   empty when no user is signed in *)
C20_ScopedByUser ==
    /\ \A K \in Keys :
          IF user = Null
          THEN lists[K] = <<>>
          ELSE \A i \in 1..Len(lists[K]) : lists[K][i].userId = user.id
    /\ isInitialized =>
          \A K \in Keys, a \in Amounts :
              LET R == addRecordResult(Cur, K, a)
                  n == Len(R.records[K].items)
              IN IF user = Null
                 THEN /\ R.outcome = "thrown"
                      /\ R.message = "User not authenticated"
                      /\ R.records = records
                      /\ R.lists = lists
                 ELSE /\ R.outcome = "ok"
                      /\ n = Len(records[K].items) + 1
                      /\ R.records[K].items[n].userId = user.id
                      /\ SubSeq(R.records[K].items, 1, n - 1) = records[K].items
                      /\ R.lists[K] = Append(lists[K], R.records[K].items[n])

\* a user signed in to a store that holds a record of another user, and the
\* list of expenses holds a record (of that user's own)
C20_Witness ==
    /\ last.op = "signIn"
    /\ user # Null
    /\ lists["@expenses"] # <<>>
    /\ \E i \in 1..Len(records["@expenses"].items) :
          records["@expenses"].items[i].userId # user.id

(* C21 as claimed: no two entries of registered_users share an id, also
   when two sign-ups happen without the clock advancing between them *)
C21_Original ==
    \A i \in 1..Len(registered_users), j \in 1..Len(registered_users) :
        i # j => registered_users[i].id # registered_users[j].id

(* C22: the in-memory user and the projection stored under @auth_store hold
   id, email and name and nothing else (no passwordHash) *)
C22_NoDigestInProjection ==
    /\ user # Null => DOMAIN user = {"id", "email", "name"}
    /\ auth_store # Null => DOMAIN auth_store = {"id", "email", "name"}

\* a signed-in user with a stored projection has updated the profile
C22_Witness ==
    /\ last.op = "updateUserProfile"
    /\ user # Null
    /\ user.name = "Bob"
    /\ auth_store # Null
    /\ \E i \in 1..Len(registered_users) :
          /\ registered_users[i].id = user.id
          /\ registered_users[i].name = "Bob"

(* C23: resetPassword checks code stored, code not expired, code equal, user
   in the directory, in that order: with no code stored it throws 'No reset
   code found'; with a stored code both expired and different from the one
   supplied it throws 'Reset code expired'; with a good code and no entry for
   the e-mail it throws 'User not found'; and whenever it throws, also for a
   rejected write, the stored code is as before *)
C23_CheckOrder ==
    isInitialized =>
        \A e \in {EmailA, EmailD}, c \in Codes :
            LET R == resetPasswordResult(Cur, e, c, Pw2, "none")
                stored == e \in DOMAIN reset_codes
            IN /\ ~stored =>
                    /\ R.outcome = "thrown"
                    /\ R.message = "No reset code found"
                    /\ R.error = "auth/no-reset-code"
               /\ (stored /\ now > reset_codes[e].expiry /\ reset_codes[e].code # c) =>
                    /\ R.outcome = "thrown"
                    /\ R.message = "Reset code expired"
                    /\ R.error = "auth/code-expired"
               /\ (stored /\ now <= reset_codes[e].expiry /\ reset_codes[e].code = c
                          /\ ~registered(Cur, e)) =>
                    /\ R.outcome = "thrown"
                    /\ R.message = "User not found"
                    /\ R.registered_users = registered_users
                    /\ R.salts = salts
               /\ \A f \in {"none", "users", "salt", "remove"} :
                     LET F == resetPasswordResult(Cur, e, c, Pw2, f)
                     IN F.outcome = "thrown" => F.reset_codes = reset_codes

\* resetPassword with the stored, unexpired code found no user of that
\* e-mail, and the code is still stored
C23_Witness ==
    /\ last.op = "resetPassword"
    /\ last.note = "orphan"
    /\ error = "auth/reset-failed"
    /\ \E e \in DOMAIN reset_codes : ~registered(Cur, e) /\ now <= reset_codes[e].expiry

(* C24 as claimed: after a successful signUp, a cold start before the 7-day
   expiry, with no signOut in between, restores the signed-up user *)
C24_Original ==
    isInitialized =>
        \A e \in {EmailA, EmailD}, d \in Delays :
            registers(Cur, e, Pw1, "Ann") =>
                LET R == signUpResult(Cur, e, Pw1, "Ann", "none")
                    U == restored(later(R, d))
                IN R.outcome = "ok" => (U # Null /\ U.id = R.uid)

(* C25 as claimed: whenever @auth_session and @auth_store are both stored,
   the userId of the session is the id of the projection *)
C25_Original ==
    (auth_session # Null /\ auth_store # Null) =>
        auth_session.userId = auth_store.id

(* C26: from an empty store, under signUp, signIn, signOut,
   requestPasswordReset, resetPassword, updateUserProfile and session expiry,
   every user in registered_users has a salt stored under its id, so that
   signIn never takes its missing-salt path *)
C26_SaltAlwaysStored ==
    /\ \A i \in 1..Len(registered_users) : registered_users[i].id \in DOMAIN salts
    /\ ~(last.op = "signIn" /\ last.note = "healed")
    /\ isInitialized =>
          \A e \in {EmailA, EmailD}, p \in {Pw1, Pw2} :
              DOMAIN signInResult(Cur, e, p, FALSE, "none").salts = DOMAIN salts

\* a user whose password was reset, hence whose salt was replaced, signed in
C26_Witness ==
    /\ last.op = "signIn"
    /\ error = NoError
    /\ user # Null
    /\ \E i \in 1..Len(registered_users) :
          LET u == registered_users[i]
          IN /\ u.id = user.id
             /\ saltOf(u) # generateSalt(u.id)
             /\ salts[u.id] = saltOf(u)

(* C27 as claimed: after every auth operation, also one in which a storage
   write failed, a non-null user implies a stored session of that user id *)
C27_Original ==
    (isInitialized /\ user # Null) =>
        (auth_session # Null /\ auth_session.userId = user.id)

(* C28 as claimed: for every input accepted by validateForm of the Register
   screen, handleRegister calls router.replace to the dashboard only when
   signUp registered and signed in a user *)
C28_Original ==
    isInitialized =>
        \A e \in Emails, p \in Passwords \cup {Weak}, n \in Names :
            validateForm(n, e, p, p) =>
                LET R == handleRegisterResult(Cur, n, e, p, p, "none")
                IN R.route = "/(tabs)/dashboard" => R.outcome = "ok"

(* C29 as claimed: after two addToSavings calls that both resolve, the second
   issued before the first re-rendered the provider, currentSavings and the
   stored value are the earlier savings plus both amounts *)
C29_Original ==
    (isInitialized /\ adding = <<>>) =>
        \A a1 \in SavingsAmounts, a2 \in SavingsAmounts :
            LET R == addToSavingsStoredResult(addToSavingsStoredResult(
                         addToSavingsResult(addToSavingsResult(Cur, a1), a2)))
            IN /\ R.currentSavings = currentSavings + a1 + a2
               /\ R.numbers["currentSavings"].value = currentSavings + a1 + a2

\* signOut, then signIn of the registered user v
switchTo(S, v) ==
    signInResult(signOutResult(S, "none"), v.email, passwordOf(v), FALSE, "none")

(* C30 as claimed: the savings, goal and budget another user sees after a
   signOut / signIn switch do not depend on what the user before entered *)
C30_Original ==
    (isInitialized /\ user # Null /\ adding = <<>>) =>
        \A i \in 1..Len(registered_users) :
            LET v == registered_users[i]
                saved(a) == switchTo(addToSavingsStoredResult(
                                         addToSavingsResult(Cur, a)), v)
                goal(g)  == switchTo(setSavingsGoalResult(Cur, g), v)
                budget(b) == switchTo(setMonthlyBudgetResult(Cur, b), v)
            IN (/\ v.id # user.id
                /\ findIndexByEmail(registered_users, v.email) = i
                /\ v.id \in DOMAIN salts
                /\ switchTo(Cur, v).outcome = "ok") =>
                   /\ saved(1).user.id = v.id
                   /\ saved(1).currentSavings = saved(2).currentSavings
                   /\ goal(500).savingsGoal = goal(600).savingsGoal
                   /\ budget(300).monthlyBudget = budget(400).monthlyBudget

====
